---- MODULE Spec2Model ----
(***************************************************************************)
(* The flashcard-generation pipeline of 10xCard:                           *)
(*   GenerationService.generateFlashcards   (generation.service.ts)        *)
(*   OpenRouterService.chat / makeRequest   (openrouter.service.ts)        *)
(*   withRetry                              (openrouter/utils.ts)          *)
(* One request is served at a time; every request builds its own           *)
(* GenerationService and OpenRouterService (pages/api/generations.ts:42),  *)
(* so only the persistence store survives from one request to the next.    *)
(***************************************************************************)
EXTENDS Integers, Sequences, FiniteSets, TLC

VARIABLES
  reqNo,        \* number of the request being served
  pc,           \* position of generateFlashcards: idle, insert, ai, update, log, done
  srcLen,       \* data.source_text.length of the request
  generation,   \* id of the row returned by the insert, Undefined before
  insertRes,    \* what the generations insert returned: none, ok, error, norow
  updateRes,    \* what the generations update returned: none, ok, error
  cardCount,    \* makeAiServiceRequest's cardCount, 0 before it ran
  proposals,    \* flashcardProposals.length once callAiService resolved
  pendingError, \* message of the error caught at line 94, "" when none
  logCall,      \* rows handed to generation_error_logs.insert by this request
  dbCalls,      \* persistence calls issued by this request
  result,       \* what generateFlashcards gave its caller
  generations,  \* table generations: row id is the index
  errorLogs,    \* table generation_error_logs
  timer,        \* the setTimeout of callAiService: unset, armed, fired
  race,         \* Promise.race of callAiService: none, pending, ai, timer
  gwState,      \* the gateway promise chain: idle, fetching, sleeping, settled,
                \* and returned / thrown when withRetry runs on its own
  gwChat,       \* which chat call is running: 0 none, 1 structured, 2 text
  delay,        \* withRetry's local delay
  lastError,    \* withRetry's local lastError (its code), "none" when unset
  attempts,     \* per chat call: number of times fn was invoked
  sleeps,       \* per chat call: the delays slept so far
  lastOutcome,  \* per chat call: how the latest fetch ended
  chatResult,   \* per chat call: none, pending, ok or the code of the error thrown
  aiResult,     \* settlement of makeAiServiceRequest
  httpCalls,    \* fetches issued by this request
  cache,        \* the Map of the response cache, entries in insertion order
  retryOptions, \* this.retryOptions of the OpenRouterService
  cacheOptions, \* this.cacheOptions of the OpenRouterService
  now,          \* Date.now()
  calls,        \* of a gateway used on its own: the calls awaiting their fetch
  lastSettled,  \* of a gateway used on its own: the call that settled last
  cacheOp,      \* the latest operation on a cache that is used on its own
  keyLog,       \* of a cache used on its own: per key, the number of the
                \* operation that inserted it and the time of its last set
  extraction,   \* of extractFlashcardsFromText used on its own: its arguments
                \* and the list it returned
  ui            \* the state of useGeneratorState, its pending fetch and the
                \* payload of its last save

vars ==
  <<reqNo, pc, srcLen, generation, insertRes, updateRes, cardCount, proposals, pendingError,
    logCall, dbCalls, result, generations, errorLogs, timer, race, gwState,
    gwChat, delay, lastError, attempts, sleeps, lastOutcome, chatResult,
    aiResult, httpCalls, cache, retryOptions, cacheOptions, now, calls,
    lastSettled, cacheOp, keyLog, extraction, ui>>

----------------------------------------------------------------------------
(* Bounds of the model *)

MaxRequests == 2

MaxCards == 1

MaxRetriesBound == 4

(* Program constants *)

MinSourceLength == 1000

MaxSourceLength == 10000

aiRequestTimeout == 40000

Undefined == -1

DEFAULT_RETRY_OPTIONS ==
  [maxRetries |-> 3, initialDelay |-> 1000, maxDelay |-> 10000, backoffFactor |-> 2]

DEFAULT_CACHE_OPTIONS ==
  [enabled |-> TRUE, ttl |-> 5 * 60 * 1000, maxSize |-> 100]

\* createOpenRouterService({ timeout: this.aiRequestTimeout })
GatewayTimeout ==
  aiRequestTimeout

\* whether a fetch of this request can have run for GatewayTimeout ms
AbortDue ==
  GatewayTimeout >= aiRequestTimeout => timer = "fired"

ValidationMessage ==
  "Source text must be between 1000 and 10000 characters"

InsertErrorMessage ==
  "Failed to create generation"

TimerMessage ==
  "AI service request timed out"

TimeoutMessage ==
  "AI generation timed out after 40 seconds"

FailedMessage ==
  "Failed to generate flashcards from text"

----------------------------------------------------------------------------
(* Inputs *)

SourceLengths ==
  {999, 1000, 10000, 10001}

ErrorStatuses ==
  {400, 401, 403, 404, 429, 503}

\* A fetch ends with a response, with a network failure (fetch rejects), or
\* aborted by makeRequest's timer.  payload: what a 200 response carries;
\* cards: the flashcards that can be read from that content.
FetchOutcomes ==
  {[kind |-> "response", status |-> s, payload |-> "none", cards |-> 0] : s \in ErrorStatuses}
  \cup {[kind |-> "response", status |-> 200, payload |-> "conformant", cards |-> n] : n \in 0..MaxCards}
  \cup {[kind |-> "response", status |-> 200, payload |-> "nonconformant", cards |-> n] : n \in 0..MaxCards}
  \cup {[kind |-> "response", status |-> 200, payload |-> "nochoices", cards |-> 0]}
  \cup {[kind |-> "network", status |-> 0, payload |-> "none", cards |-> 0]}
  \cup {[kind |-> "abort", status |-> 0, payload |-> "none", cards |-> 0]}

NoOutcome ==
  [kind |-> "none", status |-> 0]

Min(a, b) ==
  IF a <= b THEN a ELSE b

Max(a, b) ==
  IF a >= b THEN a ELSE b

----------------------------------------------------------------------------
(* generateFlashcards: pure parts *)

ValidLength_NoUpperBound(len) ==
  len >= MinSourceLength

\* line 43: the request is rejected unless 1000 <= length <= 10000
ValidLength(len) ==
  len >= MinSourceLength /\ len <= MaxSourceLength

InsertProceeds_NoRowCheck(outcome) ==
  outcome # "error"

\* lines 66-72: genError, or no row, throws; otherwise the AI call follows
InsertProceeds(outcome) ==
  outcome = "ok"

OrZero_Missing(generationId) ==
  generationId

\* line 346: generationId || 0
OrZero(generationId) ==
  IF generationId = Undefined \/ generationId = 0 THEN 0 ELSE generationId

\* lines 96-101: logGenerationError is called without its fifth argument
LogGenerationIdArgument ==
  Undefined

\* lines 342-350: the row logGenerationError inserts (req, which is not a
\* column, tells which request wrote the row)
ErrorLogRow(message) ==
  [generation_id |-> OrZero(LogGenerationIdArgument),
   error_message |-> message,
   req |-> reqNo]

CardCount_RoundsUp(len) ==
  Min(Max((len + 999) \div 1000, 5), 10)

\* line 150: Math.min(Math.max(Math.floor(sourceText.length / 1000), 5), 10)
CardCount(len) ==
  Min(Max(len \div 1000, 5), 10)

\* lines 133-141: the timer's rejection is renamed, anything else is rethrown
callAiServiceCatch(message) ==
  IF message = TimerMessage THEN TimeoutMessage ELSE message

PromiseRace_LastWins(state, settler) ==
  settler

\* line 130: Promise.race settles with whichever promise settles first
PromiseRace(state, settler) ==
  IF state = "pending" THEN settler ELSE state

----------------------------------------------------------------------------
(* The gateway: pure parts *)

makeRequest_ThrowsOnStatus(o) ==
  IF o.kind = "response" /\ o.status = 200 THEN [tag |-> "return", code |-> "none"]
  ELSE IF o.kind = "abort" THEN [tag |-> "throw", code |-> "timeout_error"]
  ELSE [tag |-> "throw", code |-> "fetch_error"]

\* makeRequest: fetch resolves for every HTTP status; it rejects on a network
\* failure (an Error without code) and, aborted, becomes a TimeoutError
makeRequest(o) ==
  IF o.kind = "response" THEN [tag |-> "return", code |-> "none"]
  ELSE IF o.kind = "abort" THEN [tag |-> "throw", code |-> "timeout_error"]
  ELSE [tag |-> "throw", code |-> "fetch_error"]

NoRetryCodes ==
  {"authentication_error", "validation_error", "content_filter_error"}

withRetryCatch_TimeoutTerminal(code, attempt, options) ==
  IF code \in NoRetryCodes \cup {"timeout_error"} THEN "throw"
  ELSE IF attempt >= options.maxRetries THEN "throw"
  ELSE "sleep"

\* withRetry's catch block: rethrow at once, give up, or sleep and go round
withRetryCatch(code, attempt, options) ==
  IF code \in NoRetryCodes THEN "throw"
  ELSE IF attempt >= options.maxRetries THEN "throw"
  ELSE "sleep"

nextDelay_Uncapped(d, options) ==
  d * options.backoffFactor

\* delay = Math.min(delay * options.backoffFactor, options.maxDelay)
nextDelay(d, options) ==
  Min(d * options.backoffFactor, options.maxDelay)

\* the error class handleErrorResponse throws for a status, by its code
handleErrorResponse(status) ==
  CASE status = 401 -> "authentication_error"
    [] status = 400 -> "validation_error"
    [] status = 404 -> "model_error"
    [] status = 429 -> "rate_limit_error"
    [] status = 402 -> "quota_exceeded_error"
    [] status = 403 -> "content_filter_error"
    [] status \in {500, 502, 503, 504} -> "internal_service_error"
    [] OTHER -> "network_error"

\* handleFetchError: the service's own errors pass, anything else is a NetworkError
handleFetchError(code) ==
  IF code = "fetch_error" THEN "network_error" ELSE code

\* processResponse: "ok", or the code of the error it throws
processResponse(o, structured) ==
  IF o.payload = "nochoices" THEN "validation_error"
  ELSE IF structured /\ o.payload # "conformant" THEN "schema_validation_error"
  ELSE "ok"

\* chat 1 passes responseFormat SCHEMAS.FLASHCARD_COLLECTION, chat 2 none
Structured(c) ==
  c = 1

\* the options makeAiServiceRequest passes to chat (lines 179-187, 201-209):
\* the same prompt and parameters, with and without responseFormat
GenerationChatOptions(c) ==
  [messages |-> "prompt",
   responseFormat |-> IF Structured(c) THEN "FLASHCARD_COLLECTION" ELSE "none",
   cache |-> "undefined"]

createCacheKey_MessagesOnly(options) ==
  [messages |-> options.messages, responseFormat |-> "none"]

\* createCacheKey: messages, model, responseFormat and parameters serialized;
\* model and parameters are the same in every call of the model
createCacheKey(options) ==
  [messages |-> options.messages, responseFormat |-> options.responseFormat]

CacheKey(c) ==
  createCacheKey(GenerationChatOptions(c))

UsesCache_Always(options) ==
  cacheOptions.enabled

\* chat lines 219 and 247: this.cache && options.cache !== false
UsesCache(options) ==
  cacheOptions.enabled /\ options.cache # "false"

----------------------------------------------------------------------------
(* createSimpleCache: the Map is a sequence of [key, value, timestamp] in
   insertion order; each operation gives the Map it leaves and what it returns *)

Has(map, key) ==
  \E i \in 1..Len(map) : map[i].key = key

Entry(map, key) ==
  map[CHOOSE i \in 1..Len(map) : map[i].key = key]

\* Map.prototype.delete
MapDelete(map, key) ==
  SelectSeq(map, LAMBDA e : e.key # key)

\* Map.prototype.set: a key already present keeps its place
MapSet(map, key, e) ==
  IF Has(map, key)
  THEN [i \in 1..Len(map) |-> IF map[i].key = key THEN e ELSE map[i]]
  ELSE Append(map, e)

\* what get gives when it returns undefined
Miss(map) ==
  [map |-> map, hit |-> FALSE, value |-> Undefined]

cacheGet_IgnoresTtl(map, key, t, ttl) ==
  IF ~Has(map, key) THEN Miss(map)
  ELSE [map |-> map, hit |-> TRUE, value |-> Entry(map, key).value]

\* utils.ts lines 317-328
cacheGet(map, key, t, ttl) ==
  IF ~Has(map, key) THEN Miss(map)
  ELSE IF t - Entry(map, key).timestamp > ttl THEN Miss(MapDelete(map, key))
  ELSE [map |-> map, hit |-> TRUE, value |-> Entry(map, key).value]

cacheSet_NoEviction(map, key, value, t, maxSize) ==
  MapSet(map, key, [key |-> key, value |-> value, timestamp |-> t])

\* utils.ts lines 330-341
cacheSet(map, key, value, t, maxSize) ==
  LET room == IF Len(map) >= maxSize /\ Len(map) > 0 THEN Tail(map) ELSE map
  IN MapSet(room, key, [key |-> key, value |-> value, timestamp |-> t])

\* utils.ts lines 343-345
cacheDelete(map, key) ==
  [map |-> MapDelete(map, key), value |-> Has(map, key)]

\* utils.ts lines 347-349
cacheClear(map) ==
  <<>>

\* makeAiServiceRequest lines 177-197: the inner catch takes every error of
\* the first chat call, whatever its class
FallsBack(code) ==
  code # "ok"

----------------------------------------------------------------------------
(* The gateway as a value: chat and withRetry change it step by step *)

Gateway ==
  [state |-> gwState, chat |-> gwChat, delay |-> delay, lastError |-> lastError,
   attempts |-> attempts, sleeps |-> sleeps, lastOutcome |-> lastOutcome,
   chatResult |-> chatResult, ai |-> aiResult, httpCalls |-> httpCalls,
   cache |-> cache]

\* chat lines 219-225: the lookup, which may drop an expired entry
Cached(g, c) ==
  IF UsesCache(GenerationChatOptions(c))
  THEN cacheGet(g.cache, CacheKey(c), now, cacheOptions.ttl)
  ELSE Miss(g.cache)

CacheHit(g, c) ==
  Cached(g, c).hit

\* makeAiServiceRequest after the text chat call (lines 201-236): its content
\* is searched for flashcards, its error becomes 'Failed to generate ...'
chat2Settles(g, res, cards) ==
  [g EXCEPT !.state = "settled",
            !.chatResult[2] = res,
            !.ai = IF res = "ok" THEN [status |-> "resolved", cards |-> cards]
                   ELSE [status |-> "rejected", cards |-> 0]]

\* chat (lines 217-237) for the text call: cache lookup, then withRetry starts
chat2Starts(g) ==
  IF CacheHit(g, 2)
  THEN chat2Settles(g, "ok", Cached(g, 2).value)
  ELSE [g EXCEPT !.state = "fetching",
                 !.cache = Cached(g, 2).map,
                 !.chat = 2,
                 !.delay = retryOptions.initialDelay,
                 !.lastError = "none",
                 !.attempts[2] = 1,
                 !.chatResult[2] = "pending",
                 !.httpCalls = @ + 1]

\* makeAiServiceRequest after the structured chat call (lines 177-200)
chat1Settles(g, res, cards) ==
  IF FallsBack(res)
  THEN chat2Starts([g EXCEPT !.chatResult[1] = res])
  ELSE [g EXCEPT !.state = "settled",
                 !.chatResult[1] = res,
                 !.ai = [status |-> "resolved", cards |-> cards]]

\* chat (lines 217-237) for the structured call
chat1Starts(g) ==
  IF CacheHit(g, 1)
  THEN chat1Settles(g, "ok", Cached(g, 1).value)
  ELSE [g EXCEPT !.state = "fetching",
                 !.cache = Cached(g, 1).map,
                 !.chat = 1,
                 !.delay = retryOptions.initialDelay,
                 !.lastError = "none",
                 !.attempts[1] = 1,
                 !.chatResult[1] = "pending",
                 !.ai = [status |-> "pending", cards |-> 0],
                 !.httpCalls = @ + 1]

\* withRetry's loop body once fn has settled (lines 210-232): return, rethrow
\* at once, give up with lastError, or sleep for the current delay
withRetrySettles(g, fn) ==
  LET c == g.chat
      att == g.attempts[c] - 1
  IN IF fn.tag = "return" THEN [g EXCEPT !.state = "returned"]
     ELSE IF withRetryCatch(fn.code, att, retryOptions) = "sleep"
     THEN [g EXCEPT !.state = "sleeping",
                    !.lastError = fn.code,
                    !.sleeps[c] = Append(@, g.delay)]
     ELSE [g EXCEPT !.state = "thrown", !.lastError = fn.code]

\* chat lines 239-255 once withRetry has returned or thrown: "ok" or the code
\* of the error chat throws
chatOutcome(g, o) ==
  IF g.state = "thrown" THEN handleFetchError(g.lastError)
  ELSE IF o.status # 200 THEN handleFetchError(handleErrorResponse(o.status))
  ELSE handleFetchError(processResponse(o, Structured(g.chat)))

\* one fetch of the running chat call ends: withRetry's loop body, and when
\* withRetry is over the rest of chat and of makeAiServiceRequest
fetchSettles(g, o) ==
  LET c == g.chat
      g1 == withRetrySettles(
              [g EXCEPT !.lastOutcome[c] = [kind |-> o.kind, status |-> o.status]],
              makeRequest(o))
  IN IF g1.state = "sleeping" THEN g1
     ELSE LET res == chatOutcome(g1, o)
              g2 == IF res = "ok" /\ UsesCache(GenerationChatOptions(c))
                    THEN [g1 EXCEPT !.cache = cacheSet(@, CacheKey(c), o.cards, now,
                                                       cacheOptions.maxSize)]
                    ELSE g1
          IN IF c = 1 THEN chat1Settles(g2, res, o.cards)
                      ELSE chat2Settles(g2, res, o.cards)

\* the backoff sleep is over: the delay grows and fn is invoked again
sleepEnds(g) ==
  [g EXCEPT !.state = "fetching",
            !.delay = nextDelay(@, retryOptions),
            !.attempts[g.chat] = @ + 1,
            !.httpCalls = @ + 1]

SetGateway(g) ==
  /\ gwState' = g.state
  /\ gwChat' = g.chat
  /\ delay' = g.delay
  /\ lastError' = g.lastError
  /\ attempts' = g.attempts
  /\ sleeps' = g.sleeps
  /\ lastOutcome' = g.lastOutcome
  /\ chatResult' = g.chatResult
  /\ aiResult' = g.ai
  /\ httpCalls' = g.httpCalls
  /\ cache' = g.cache

gwVars ==
  <<gwState, gwChat, delay, lastError, attempts, sleeps, lastOutcome,
    chatResult, aiResult, httpCalls, cache>>

----------------------------------------------------------------------------
(* State after construction *)

NoResult ==
  [kind |-> "none", message |-> "", generation_id |-> Undefined, proposals |-> 0]

NoDbCalls ==
  [insert |-> 0, update |-> 0, log |-> 0]

\* what a request starts from: nothing of the previous request is kept
Fresh ==
  [pc |-> "idle",
   srcLen |-> 0,
   generation |-> Undefined,
   insertRes |-> "none",
   updateRes |-> "none",
   cardCount |-> 0,
   proposals |-> 0,
   pendingError |-> "",
   logCall |-> <<>>,
   dbCalls |-> NoDbCalls,
   result |-> NoResult,
   timer |-> "unset",
   race |-> "none",
   gwState |-> "idle",
   gwChat |-> 0,
   delay |-> 0,
   lastError |-> "none",
   attempts |-> [c \in 1..2 |-> 0],
   sleeps |-> [c \in 1..2 |-> <<>>],
   lastOutcome |-> [c \in 1..2 |-> NoOutcome],
   chatResult |-> [c \in 1..2 |-> "none"],
   aiResult |-> [status |-> "none", cards |-> 0],
   httpCalls |-> 0,
   cache |-> <<>>]

NoSettled ==
  [options |-> "none", state |-> "none", attempts |-> 0, response |-> Undefined,
   fromCache |-> FALSE]

NoCacheOp ==
  [no |-> 0, op |-> "none", key |-> "none", value |-> Undefined]

\* the gateway's configuration, the clock, and what is only used when the
\* gateway or the cache is run on its own
\* extractFlashcardsFromText has not been called
NoExtraction ==
  [text |-> <<>>, expectedCount |-> 0, flashcards |-> <<>>, state |-> "none"]

\* the useState defaults of useGeneratorState (lines 13-19); no fetch pending
InitialUi ==
  [state |-> "input", sourceText |-> 0, generationId |-> Undefined, flashcards |-> <<>>,
   isGenerating |-> FALSE, isSaving |-> FALSE, error |-> "null",
   fetch |-> "none", payload |-> <<>>]

\* what is only used when a part is run on its own
sideVars ==
  <<extraction, ui>>

cacheVars ==
  <<cacheOptions, now, calls, lastSettled, cacheOp, keyLog, extraction, ui>>

InitCacheVars ==
  /\ cacheOptions = DEFAULT_CACHE_OPTIONS
  /\ now = 0
  /\ calls = <<>>
  /\ lastSettled = NoSettled
  /\ cacheOp = NoCacheOp
  /\ keyLog = <<>>
  /\ extraction = NoExtraction
  /\ ui = InitialUi

Init ==
  /\ reqNo = 1
  /\ generations = <<>>
  /\ errorLogs = <<>>
  /\ retryOptions = DEFAULT_RETRY_OPTIONS
  /\ InitCacheVars
  /\ pc = Fresh.pc
  /\ srcLen = Fresh.srcLen
  /\ generation = Fresh.generation
  /\ insertRes = Fresh.insertRes
  /\ updateRes = Fresh.updateRes
  /\ cardCount = Fresh.cardCount
  /\ proposals = Fresh.proposals
  /\ pendingError = Fresh.pendingError
  /\ logCall = Fresh.logCall
  /\ dbCalls = Fresh.dbCalls
  /\ result = Fresh.result
  /\ timer = Fresh.timer
  /\ race = Fresh.race
  /\ gwState = Fresh.gwState
  /\ gwChat = Fresh.gwChat
  /\ delay = Fresh.delay
  /\ lastError = Fresh.lastError
  /\ attempts = Fresh.attempts
  /\ sleeps = Fresh.sleeps
  /\ lastOutcome = Fresh.lastOutcome
  /\ chatResult = Fresh.chatResult
  /\ aiResult = Fresh.aiResult
  /\ httpCalls = Fresh.httpCalls
  /\ cache = Fresh.cache

----------------------------------------------------------------------------
(* generateFlashcards *)

\* lines 41-64: the length check, then the generations insert is issued
Generate(len) ==
  /\ pc = "idle"
  /\ srcLen' = len
  /\ IF ValidLength(len)
     THEN /\ pc' = "insert"
          /\ dbCalls' = [dbCalls EXCEPT !.insert = @ + 1]
          /\ result' = result
     ELSE /\ pc' = "done"
          /\ dbCalls' = dbCalls
          /\ result' = [NoResult EXCEPT !.kind = "error", !.message = ValidationMessage]
  /\ UNCHANGED <<reqNo, generation, insertRes, updateRes, cardCount, proposals, pendingError,
                 logCall, generations, errorLogs, timer, race, retryOptions>>
  /\ UNCHANGED gwVars
  /\ UNCHANGED cacheVars

\* the catch block of lines 94-101 up to the log insert being issued
EntersCatch(message) ==
  /\ pendingError' = message
  /\ pc' = "log"
  /\ logCall' = Append(logCall, ErrorLogRow(message))
  /\ dbCalls' = [dbCalls EXCEPT !.log = @ + 1]

\* lines 66-75 and callAiService lines 119-130: the insert returns; on success
\* the timer is set, makeAiServiceRequest starts and both are raced
InsertSettles(outcome) ==
  /\ pc = "insert"
  /\ insertRes' = outcome
  /\ IF InsertProceeds(outcome)
     THEN /\ generations' =
               IF outcome = "ok"
               THEN Append(generations, [generated_count |-> 0, accepted_count |-> 0])
               ELSE generations
          /\ generation' = IF outcome = "ok" THEN Len(generations) + 1 ELSE Undefined
          /\ timer' = "armed"
          /\ race' = "pending"
          /\ pc' = "ai"
          /\ cardCount' = CardCount(srcLen)
          /\ SetGateway(chat1Starts(Gateway))
          /\ UNCHANGED <<pendingError, logCall, dbCalls>>
     ELSE /\ EntersCatch(InsertErrorMessage)
          /\ UNCHANGED <<generations, generation, cardCount, timer, race>>
          /\ UNCHANGED gwVars
  /\ UNCHANGED <<reqNo, srcLen, updateRes, proposals, result, errorLogs, retryOptions>>
  /\ UNCHANGED cacheVars

\* the orchestrator's continuation when the race is settled by
\* makeAiServiceRequest: lines 130-141, then 77-83 or 94-101
RaceSettledByAi(ai) ==
  IF ai.status = "resolved"
  THEN /\ proposals' = ai.cards
       /\ pc' = "update"
       /\ dbCalls' = [dbCalls EXCEPT !.update = @ + 1]
       /\ UNCHANGED <<pendingError, logCall>>
  ELSE /\ EntersCatch(callAiServiceCatch(FailedMessage))
       /\ UNCHANGED proposals

\* A fetch of the gateway ends.  makeRequest aborts it GatewayTimeout ms after
\* it was issued; the timer of callAiService was set before the first fetch,
\* so a fetch is aborted only when that timer has run out.
FetchSettles(o) ==
  /\ gwState = "fetching"
  /\ o.kind = "abort" => AbortDue
  /\ LET g == fetchSettles(Gateway, o)
         settled == g.ai.status \in {"resolved", "rejected"}
     IN /\ SetGateway(g)
        /\ race' = IF settled THEN PromiseRace(race, "ai") ELSE race
        /\ IF settled /\ PromiseRace(race, "ai") = "ai" /\ race # "ai"
           THEN RaceSettledByAi(g.ai)
           ELSE UNCHANGED <<proposals, pc, dbCalls, pendingError, logCall>>
  /\ UNCHANGED <<reqNo, srcLen, generation, insertRes, updateRes, cardCount, result,
                 generations, errorLogs, timer, retryOptions>>
  /\ UNCHANGED cacheVars

\* the backoff sleep of withRetry ends
SleepEnds ==
  /\ gwState = "sleeping"
  /\ SetGateway(sleepEnds(Gateway))
  /\ UNCHANGED <<reqNo, pc, srcLen, generation, insertRes, updateRes, cardCount, proposals,
                 pendingError, logCall, dbCalls, result, generations, errorLogs,
                 timer, race, retryOptions>>
  /\ UNCHANGED cacheVars

\* The setTimeout of line 123 fires, aiRequestTimeout ms after it was set.  A
\* fetch may take any time up to GatewayTimeout, so the timer can run out
\* at any point of the gateway's work.
TimerFires ==
  /\ timer = "armed"
  /\ timer' = "fired"
  /\ race' = PromiseRace(race, "timer")
  /\ IF PromiseRace(race, "timer") = "timer" /\ race # "timer"
     THEN EntersCatch(callAiServiceCatch(TimerMessage))
     ELSE UNCHANGED <<pc, dbCalls, pendingError, logCall>>
  /\ UNCHANGED <<reqNo, srcLen, generation, insertRes, updateRes, cardCount, proposals, result,
                 generations, errorLogs, retryOptions>>
  /\ UNCHANGED gwVars
  /\ UNCHANGED cacheVars

UpdatedGenerations_NotWritten(outcome) ==
  generations

\* lines 78-83: update({ generated_count: flashcardProposals.length })
\* .eq('id', generation.id), when the store carries it out
UpdatedGenerations(outcome) ==
  IF outcome = "ok" /\ generation \in 1..Len(generations)
  THEN [generations EXCEPT ![generation].generated_count = proposals]
  ELSE generations

UpdateProceeds_ThrowsOnError(outcome) ==
  outcome = "ok"

\* lines 85-88: updateError is printed with console.error, nothing is thrown
UpdateProceeds(outcome) ==
  TRUE

\* lines 77-93: the update returns, then generation_id and the proposals are
\* returned to the caller
UpdateSettles(outcome) ==
  /\ pc = "update"
  /\ updateRes' = outcome
  /\ generations' = UpdatedGenerations(outcome)
  /\ IF UpdateProceeds(outcome)
     THEN /\ result' = [kind |-> "ok", message |-> "", generation_id |-> generation,
                        proposals |-> proposals]
          /\ pc' = "done"
          /\ UNCHANGED <<pendingError, logCall, dbCalls>>
     ELSE /\ EntersCatch("Failed to update generation count")
          /\ UNCHANGED result
  /\ UNCHANGED <<reqNo, srcLen, generation, insertRes, cardCount, proposals,
                 errorLogs, timer, race, retryOptions>>
  /\ UNCHANGED gwVars
  /\ UNCHANGED cacheVars

Rethrown_LogErrorEscapes(pending, outcome) ==
  IF outcome = "throw" THEN "Failed to log generation error" ELSE pending

\* logGenerationError lines 351-355 and generateFlashcards line 102: an
\* error result of the insert is not looked at, a thrown one is caught and
\* printed; the error caught at line 94 is thrown again
Rethrown(pending, outcome) ==
  pending

\* logGenerationError lines 341-355 and line 102: the log insert returns or
\* throws, then the caught error is rethrown
LogSettles(outcome) ==
  /\ pc = "log"
  /\ errorLogs' = IF outcome = "ok" THEN Append(errorLogs, logCall[Len(logCall)])
                  ELSE errorLogs
  /\ result' = [NoResult EXCEPT !.kind = "error",
                                !.message = Rethrown(pendingError, outcome)]
  /\ pc' = "done"
  /\ UNCHANGED <<reqNo, srcLen, generation, insertRes, updateRes, cardCount, proposals,
                 pendingError, logCall, dbCalls, generations, timer, race, retryOptions>>
  /\ UNCHANGED gwVars
  /\ UNCHANGED cacheVars

\* POST /api/generations is called again: a new GenerationService, a new
\* OpenRouterService with an empty cache.  What the earlier request left
\* behind (its timer, a gateway promise it no longer awaits) belongs to
\* objects the new request cannot reach, and is followed no further.
NewRequest ==
  /\ pc = "done"
  /\ reqNo < MaxRequests
  /\ reqNo' = reqNo + 1
  /\ pc' = Fresh.pc
  /\ srcLen' = Fresh.srcLen
  /\ generation' = Fresh.generation
  /\ insertRes' = Fresh.insertRes
  /\ updateRes' = Fresh.updateRes
  /\ cardCount' = Fresh.cardCount
  /\ proposals' = Fresh.proposals
  /\ pendingError' = Fresh.pendingError
  /\ logCall' = Fresh.logCall
  /\ dbCalls' = Fresh.dbCalls
  /\ result' = Fresh.result
  /\ timer' = Fresh.timer
  /\ race' = Fresh.race
  /\ gwState' = Fresh.gwState
  /\ gwChat' = Fresh.gwChat
  /\ delay' = Fresh.delay
  /\ lastError' = Fresh.lastError
  /\ attempts' = Fresh.attempts
  /\ sleeps' = Fresh.sleeps
  /\ lastOutcome' = Fresh.lastOutcome
  /\ chatResult' = Fresh.chatResult
  /\ aiResult' = Fresh.aiResult
  /\ httpCalls' = Fresh.httpCalls
  /\ cache' = Fresh.cache
  /\ UNCHANGED <<generations, errorLogs, retryOptions>>
  /\ UNCHANGED cacheVars

Next ==
  \/ \E len \in SourceLengths : Generate(len)
  \/ \E outcome \in {"ok", "error", "norow"} : InsertSettles(outcome)
  \/ \E o \in FetchOutcomes : FetchSettles(o)
  \/ SleepEnds
  \/ TimerFires
  \/ \E outcome \in {"ok", "error"} : UpdateSettles(outcome)
  \/ \E outcome \in {"ok", "error", "throw"} : LogSettles(outcome)
  \/ NewRequest

Spec ==
  Init /\ [][Next]_vars

----------------------------------------------------------------------------
(* generateFlashcards up to the start of the model call, for every length
   around the accepted range *)

AllSourceLengths ==
  990..10010

NextLengths ==
  \/ \E len \in AllSourceLengths : Generate(len)
  \/ InsertSettles("ok")

SpecLengths ==
  Init /\ [][NextLengths]_vars

----------------------------------------------------------------------------
(* Both chat calls of one generation, answered with any status that is not
   OK (response.ok is false outside 200..299) *)

NotOkStatuses ==
  (100..599) \ (200..299)

StatusResponse(s) ==
  [kind |-> "response", status |-> s, payload |-> "none", cards |-> 0]

NextStatuses ==
  \/ Generate(MinSourceLength)
  \/ InsertSettles("ok")
  \/ \E s \in NotOkStatuses : FetchSettles(StatusResponse(s))

SpecStatuses ==
  Init /\ [][NextStatuses]_vars

----------------------------------------------------------------------------
(* withRetry on its own: any options, any wrapped operation that settles *)

RetryOptionSets ==
  [maxRetries : 0..MaxRetriesBound, initialDelay : {1000, 6000},
   maxDelay : {10000}, backoffFactor : {2, 3}]

\* what the wrapped operation does when invoked: it returns, or throws an
\* error with one of these codes ("fetch_error": an Error without code)
FnResults ==
  {[tag |-> "return", code |-> "none"]}
  \cup {[tag |-> "throw", code |-> c] :
          c \in {"authentication_error", "validation_error", "content_filter_error",
                 "timeout_error", "rate_limit_error", "fetch_error"}}

\* withRetry lines 206-211: delay = options.initialDelay, first call of fn
InitRetry ==
  /\ reqNo = 1
  /\ generations = <<>>
  /\ errorLogs = <<>>
  /\ retryOptions \in RetryOptionSets
  /\ InitCacheVars
  /\ pc = Fresh.pc
  /\ srcLen = Fresh.srcLen
  /\ generation = Fresh.generation
  /\ insertRes = Fresh.insertRes
  /\ updateRes = Fresh.updateRes
  /\ cardCount = Fresh.cardCount
  /\ proposals = Fresh.proposals
  /\ pendingError = Fresh.pendingError
  /\ logCall = Fresh.logCall
  /\ dbCalls = Fresh.dbCalls
  /\ result = Fresh.result
  /\ timer = Fresh.timer
  /\ race = Fresh.race
  /\ gwState = "fetching"
  /\ gwChat = 1
  /\ delay = retryOptions.initialDelay
  /\ lastError = Fresh.lastError
  /\ attempts = [Fresh.attempts EXCEPT ![1] = 1]
  /\ sleeps = Fresh.sleeps
  /\ lastOutcome = Fresh.lastOutcome
  /\ chatResult = Fresh.chatResult
  /\ aiResult = Fresh.aiResult
  /\ httpCalls = 1
  /\ cache = Fresh.cache

notGwVars ==
  <<reqNo, pc, srcLen, generation, insertRes, updateRes, cardCount, proposals, pendingError,
    logCall, dbCalls, result, generations, errorLogs, timer, race, retryOptions>>

\* the wrapped operation settles
RetryFnSettles(fn) ==
  /\ gwState = "fetching"
  /\ SetGateway(withRetrySettles(
       [Gateway EXCEPT !.lastOutcome[1] = [kind |-> fn.code, status |-> 0]], fn))
  /\ UNCHANGED notGwVars
  /\ UNCHANGED cacheVars

\* the backoff sleep ends
RetrySleepEnds ==
  /\ gwState = "sleeping"
  /\ SetGateway(sleepEnds(Gateway))
  /\ UNCHANGED notGwVars
  /\ UNCHANGED cacheVars

NextRetry ==
  \/ \E fn \in FnResults : RetryFnSettles(fn)
  \/ RetrySleepEnds

SpecRetry ==
  InitRetry /\ [][NextRetry]_vars

\* the event loop runs a settled promise's continuation and a due timer
SpecRetryFair ==
  SpecRetry /\ WF_vars(NextRetry)

----------------------------------------------------------------------------
(* createSimpleCache on its own: any sequence of get, set, delete and clear,
   with the clock advancing in between *)

MaxOps == 5

MaxTime == 2

TtlBound == 1

MaxSizeBound == 2

CacheKeys ==
  {"a", "b", "c"}

CacheValues ==
  {1, 2}

NotStored ==
  [no |-> 0, setAt |-> 0]

gwRunVars ==
  <<gwState, gwChat, delay, lastError, attempts, sleeps, lastOutcome,
    chatResult, aiResult, httpCalls>>

\* no request is being served
IdleRequest ==
  /\ extraction = NoExtraction
  /\ ui = InitialUi
  /\ reqNo = 1
  /\ generations = <<>>
  /\ errorLogs = <<>>
  /\ pc = Fresh.pc
  /\ srcLen = Fresh.srcLen
  /\ generation = Fresh.generation
  /\ insertRes = Fresh.insertRes
  /\ updateRes = Fresh.updateRes
  /\ cardCount = Fresh.cardCount
  /\ proposals = Fresh.proposals
  /\ pendingError = Fresh.pendingError
  /\ logCall = Fresh.logCall
  /\ dbCalls = Fresh.dbCalls
  /\ result = Fresh.result
  /\ timer = Fresh.timer
  /\ race = Fresh.race
  /\ gwState = Fresh.gwState
  /\ gwChat = Fresh.gwChat
  /\ delay = Fresh.delay
  /\ lastError = Fresh.lastError
  /\ attempts = Fresh.attempts
  /\ sleeps = Fresh.sleeps
  /\ lastOutcome = Fresh.lastOutcome
  /\ chatResult = Fresh.chatResult
  /\ aiResult = Fresh.aiResult
  /\ httpCalls = Fresh.httpCalls

\* createSimpleCache(maxSize, ttl): an empty Map
InitCache ==
  /\ IdleRequest
  /\ retryOptions = DEFAULT_RETRY_OPTIONS
  /\ cache = <<>>
  /\ cacheOptions \in [enabled : {TRUE}, ttl : {TtlBound}, maxSize : 1..MaxSizeBound]
  /\ now = 0
  /\ calls = <<>>
  /\ lastSettled = NoSettled
  /\ cacheOp = NoCacheOp
  /\ keyLog = [k \in CacheKeys |-> NotStored]

\* what the operation leaves of the record of insertions: a key the Map no
\* longer holds is forgotten, a key it newly holds was inserted by this
\* operation, and set stamps its key
Logged(log, map, op) ==
  [k \in DOMAIN log |->
     IF ~Has(map, k) THEN NotStored
     ELSE [no |-> IF log[k].no = 0 THEN op.no ELSE log[k].no,
           setAt |-> IF op.op = "set" /\ op.key = k THEN now ELSE log[k].setAt]]

CacheOpDone(op) ==
  /\ cacheOp.no < MaxOps
  /\ cacheOp' = [op EXCEPT !.no = cacheOp.no + 1]
  /\ UNCHANGED <<cacheOptions, now, calls, lastSettled>>
  /\ UNCHANGED notGwVars
  /\ UNCHANGED gwRunVars
  /\ UNCHANGED sideVars

\* set(key, value): the first key of the Map is deleted before the record of
\* insertions sees the set
CacheSet(key, value) ==
  LET first == IF Len(cache) >= cacheOptions.maxSize /\ Len(cache) > 0
               THEN Tail(cache) ELSE cache
      op == [no |-> cacheOp.no + 1, op |-> "set", key |-> key, value |-> Undefined]
  IN /\ cache' = cacheSet(cache, key, value, now, cacheOptions.maxSize)
     /\ keyLog' = Logged(Logged(keyLog, first, [op EXCEPT !.op = "delete"]), cache', op)
     /\ CacheOpDone(op)

CacheGet(key) ==
  LET r == cacheGet(cache, key, now, cacheOptions.ttl)
      op == [no |-> cacheOp.no + 1, op |-> "get", key |-> key, value |-> r.value]
  IN /\ cache' = r.map
     /\ keyLog' = Logged(keyLog, cache', op)
     /\ CacheOpDone(op)

CacheDelete(key) ==
  LET r == cacheDelete(cache, key)
      op == [no |-> cacheOp.no + 1, op |-> "delete", key |-> key, value |-> Undefined]
  IN /\ cache' = r.map
     /\ keyLog' = Logged(keyLog, cache', op)
     /\ CacheOpDone(op)

CacheClear ==
  LET op == [no |-> cacheOp.no + 1, op |-> "clear", key |-> "none", value |-> Undefined]
  IN /\ cache' = cacheClear(cache)
     /\ keyLog' = Logged(keyLog, cache', op)
     /\ CacheOpDone(op)

\* Date.now() advances
Tick ==
  /\ now < MaxTime
  /\ now' = now + 1
  /\ UNCHANGED <<cache, cacheOptions, calls, lastSettled, cacheOp, keyLog>>
  /\ UNCHANGED notGwVars
  /\ UNCHANGED gwRunVars
  /\ UNCHANGED sideVars

NextCache ==
  \/ \E k \in CacheKeys, v \in CacheValues : CacheSet(k, v)
  \/ \E k \in CacheKeys : CacheGet(k)
  \/ \E k \in CacheKeys : CacheDelete(k)
  \/ CacheClear
  \/ Tick

SpecCache ==
  InitCache /\ [][NextCache]_vars

----------------------------------------------------------------------------
(* One OpenRouterService used on its own: chat calls with any options, made
   one after another or while earlier ones are still awaiting their fetch.
   calls holds the calls that await their fetch, lastSettled the call that
   returned or threw last. *)

MaxCalls == 2

\* one prompt, asked with and without a response format, with the cache
\* left on and turned off for the call
ChatOptionSets ==
  [messages : {"m1"}, responseFormat : {"none", "schema"},
   cache : {"undefined", "false"}]

\* what the upstream can do with a request: answer it with content 1 or 2,
\* or answer 503; an answer is tagged with its request
GatewayOutcomes ==
  {[kind |-> "response", status |-> 200, payload |-> "conformant", cards |-> v] :
     v \in CacheValues}
  \cup {[kind |-> "response", status |-> 503, payload |-> "none", cards |-> 0]}

\* buildRequestBody: the request carries the messages, model, response format
\* and parameters of the options, which is what createCacheKey serializes
RequestOf(options) ==
  [messages |-> options.messages, responseFormat |-> options.responseFormat]

\* new OpenRouterService(config): config.retryOptions and config.cacheOptions
\* are merged over the defaults (lines 130-145); here without retries
InitGateway ==
  /\ IdleRequest
  /\ retryOptions = [DEFAULT_RETRY_OPTIONS EXCEPT !.maxRetries = 0]
  /\ cache = <<>>
  /\ cacheOptions \in [enabled : {TRUE}, ttl : {TtlBound}, maxSize : {1, MaxSizeBound}]
  /\ now = 0
  /\ calls = <<>>
  /\ lastSettled = NoSettled
  /\ cacheOp = NoCacheOp
  /\ keyLog = <<>>

\* chat lines 217-237: the cache lookup; on a hit the cached response is
\* returned, otherwise the fetch is issued
ChatStarts(options) ==
  LET key == createCacheKey(options)
      r == IF UsesCache(options)
           THEN cacheGet(cache, key, now, cacheOptions.ttl)
           ELSE Miss(cache)
  IN /\ cache' = r.map
     /\ IF r.hit
        THEN /\ lastSettled' = [options |-> options, state |-> "returned", attempts |-> 0,
                            response |-> r.value, fromCache |-> TRUE]
             /\ calls' = calls
        ELSE /\ Len(calls) < MaxCalls
             /\ calls' = Append(calls, [options |-> options, attempts |-> 1])
             /\ lastSettled' = lastSettled
     /\ UNCHANGED <<cacheOptions, now, cacheOp, keyLog>>
     /\ UNCHANGED notGwVars
     /\ UNCHANGED gwRunVars
     /\ UNCHANGED sideVars

\* the fetch of call i ends: withRetry's loop body, then chat lines 239-255
ChatFetchSettles(i, o) ==
  LET call == calls[i]
      key == createCacheKey(call.options)
      response == [for |-> RequestOf(call.options), content |-> o.cards]
      fn == makeRequest(o)
      res == IF fn.tag = "throw" THEN handleFetchError(fn.code)
             ELSE IF o.status # 200 THEN handleFetchError(handleErrorResponse(o.status))
             ELSE handleFetchError(processResponse(o, call.options.responseFormat # "none"))
  IN /\ fn.tag = "throw" => withRetryCatch(fn.code, call.attempts - 1, retryOptions) = "throw"
     /\ calls' = [j \in 1..(Len(calls) - 1) |-> IF j < i THEN calls[j] ELSE calls[j + 1]]
     /\ lastSettled' = [options |-> call.options,
                    state |-> IF res = "ok" THEN "returned" ELSE res,
                    attempts |-> call.attempts,
                    response |-> IF res = "ok" THEN response ELSE Undefined,
                    fromCache |-> FALSE]
     /\ cache' = IF res = "ok" /\ UsesCache(call.options)
                 THEN cacheSet(cache, key, response, now, cacheOptions.maxSize)
                 ELSE cache
     /\ UNCHANGED <<cacheOptions, now, cacheOp, keyLog>>
     /\ UNCHANGED notGwVars
     /\ UNCHANGED gwRunVars
     /\ UNCHANGED sideVars

NextGateway ==
  \/ \E options \in ChatOptionSets : ChatStarts(options)
  \/ \E i \in 1..Len(calls), o \in GatewayOutcomes : ChatFetchSettles(i, o)
  \/ Tick

SpecGateway ==
  InitGateway /\ [][NextGateway]_vars

----------------------------------------------------------------------------
(* JSON values and validateJsonSchema.  A value is a record: t its kind
   (string, number, boolean, null, array, object), n the length of a string
   or the value of a number, whole whether a number is an integer, items the
   elements of an array, props the properties of an object.  A schema is a
   record of the keywords the validator reads, Undefined where one is absent. *)

JValue ==
  [t |-> "null", n |-> 0, whole |-> TRUE, items |-> <<>>, props |-> <<>>]

JStr(len) ==
  [JValue EXCEPT !.t = "string", !.n = len]

JNum(v) ==
  [JValue EXCEPT !.t = "number", !.n = v]

\* a number between v and v + 1
JFrac(v) ==
  [JValue EXCEPT !.t = "number", !.n = v, !.whole = FALSE]

JArr(items) ==
  [JValue EXCEPT !.t = "array", !.items = items]

JObj(props) ==
  [JValue EXCEPT !.t = "object", !.props = props]

\* typeof value
TypeOf(v) ==
  IF v.t \in {"null", "array", "object"} THEN "object" ELSE v.t

\* obj[name] === undefined, for a value that is not null
Lacks(v, name) ==
  v.t # "object" \/ name \notin DOMAIN v.props

JSchema ==
  [type |-> "none", required |-> {}, hasProperties |-> FALSE, properties |-> <<>>,
   hasItems |-> FALSE, items |-> <<>>, minItems |-> Undefined, maxItems |-> Undefined,
   minimum |-> Undefined, maximum |-> Undefined, minLength |-> Undefined,
   maxLength |-> Undefined]

\* lines 493-511 of validateProperty: the type check
TypeError(value, ps) ==
  CASE ps.type = "integer" -> ~(value.t = "number" /\ value.whole)
    [] ps.type = "number" -> TypeOf(value) # "number"
    [] ps.type = "string" -> TypeOf(value) # "string"
    [] ps.type = "boolean" -> TypeOf(value) # "boolean"
    [] ps.type = "object" -> value.t # "object"
    [] ps.type = "array" -> value.t # "array"
    [] OTHER -> FALSE

\* lines 531-549 of validateProperty: number and string constraints; a
\* number between n and n + 1 is below a whole minimum m when n < m and above
\* a whole maximum m when n >= m
RangeError(value, ps) ==
  \/ /\ value.t = "number"
     /\ \/ ps.minimum # Undefined /\ value.n < ps.minimum
        \/ ps.maximum # Undefined /\ value.n > ps.maximum
        \/ ps.maximum # Undefined /\ ~value.whole /\ value.n >= ps.maximum
  \/ /\ value.t = "string"
     /\ \/ ps.minLength # Undefined /\ value.n < ps.minLength
        \/ ps.maxLength # Undefined /\ value.n > ps.maxLength

Worst(a, b) ==
  IF "threw" \in {a, b} THEN "threw"
  ELSE IF "invalid" \in {a, b} THEN "invalid"
  ELSE "valid"

\* line 514: propertySchema.type === 'array' && Array.isArray(value) &&
\* propertySchema.items
ChecksArray(value, ps) ==
  ps.type = "array" /\ value.t = "array" /\ ps.hasItems

RECURSIVE validateProperty(_, _)

RECURSIVE validateObject(_, _)

\* lines 491-556: "valid", "invalid" (an error was pushed) or "threw"
validateProperty(value, ps) ==
  LET here == IF \/ TypeError(value, ps)
                 \/ RangeError(value, ps)
                 \/ /\ ChecksArray(value, ps)
                    /\ \/ ps.minItems # Undefined /\ Len(value.items) < ps.minItems
                       \/ ps.maxItems # Undefined /\ Len(value.items) > ps.maxItems
              THEN "invalid" ELSE "valid"
      inItems == IF ChecksArray(value, ps) /\ ps.hasItems
                 THEN {validateProperty(value.items[i], ps.items) :
                         i \in 1..Len(value.items)}
                 ELSE {}
      nested == IF ps.type = "object" /\ ps.hasProperties
                THEN validateObject(value, ps) ELSE "valid"
  IN IF "threw" \in inItems \cup {nested} THEN "threw"
     ELSE IF "invalid" \in inItems \cup {here, nested} THEN "invalid"
     ELSE "valid"

\* lines 559-581: property access on null throws a TypeError
validateObject(obj, schema) ==
  IF obj.t = "null"
  THEN IF schema.required # {} \/ (schema.hasProperties /\ DOMAIN schema.properties # {})
       THEN "threw" ELSE "valid"
  ELSE LET missing == \E name \in schema.required : Lacks(obj, name)
           inProps == IF schema.hasProperties
                      THEN {validateProperty(obj.props[name], schema.properties[name]) :
                              name \in {m \in DOMAIN schema.properties : ~Lacks(obj, m)}}
                      ELSE {}
       IN IF "threw" \in inProps THEN "threw"
          ELSE IF missing \/ "invalid" \in inProps THEN "invalid"
          ELSE "valid"

\* validateJsonSchema, line 583
validateJsonSchema(obj, schema) ==
  validateObject(obj, schema)

\* processResponse lines 611-637 for a json_schema format, content being the
\* parsed JSON: "ok" or the code of the error thrown
processJson(content, schema, strict) ==
  IF TypeOf(content) # "object" \/ content.t = "null" THEN "schema_validation_error"
  ELSE IF validateJsonSchema(content, schema) = "threw" THEN "schema_validation_error"
  ELSE IF validateJsonSchema(content, schema) = "invalid" /\ strict
  THEN "schema_validation_error"
  ELSE "ok"

----------------------------------------------------------------------------
(* One structured chat call alone: a json_schema response format and the
   content the upstream answers with are drawn from bounded sets, and the
   call runs from the answer of the fetch to its return or throw. *)

StringSchema ==
  [JSchema EXCEPT !.type = "string"]

\* SCHEMAS.FLASHCARD_COLLECTION
FLASHCARD_COLLECTION ==
  [JSchema EXCEPT
     !.type = "object",
     !.required = {"flashcards"},
     !.hasProperties = TRUE,
     !.properties =
       [flashcards |->
          [JSchema EXCEPT
             !.type = "array",
             !.minItems = 1,
             !.hasItems = TRUE,
             !.items = [JSchema EXCEPT
                          !.type = "object",
                          !.required = {"front", "back"},
                          !.hasProperties = TRUE,
                          !.properties = [front |-> StringSchema,
                                          back |-> StringSchema]]]]]

\* a caller's schema with length, range and maxItems keywords
BoundedCollection ==
  [FLASHCARD_COLLECTION EXCEPT
     !.properties.flashcards.maxItems = 2,
     !.properties.flashcards.items.properties =
       [front |-> [StringSchema EXCEPT !.minLength = 1, !.maxLength = 3],
        back |-> [JSchema EXCEPT !.type = "integer", !.minimum = 1, !.maximum = 5]]]

\* a caller's schema whose array declares minItems and maxItems but no items
UntypedCollection ==
  [FLASHCARD_COLLECTION EXCEPT
     !.properties.flashcards = [JSchema EXCEPT !.type = "array", !.minItems = 1,
                                               !.maxItems = 2]]

SchemaOf(name) ==
  CASE name = "flashcard_collection" -> FLASHCARD_COLLECTION
    [] name = "bounded_collection" -> BoundedCollection
    [] name = "untyped_collection" -> UntypedCollection

\* createJsonSchema(schema, { name, strict }): strict defaults to true
ResponseFormats ==
  [name : {"flashcard_collection", "bounded_collection", "untyped_collection"},
   strict : BOOLEAN]

Leaves ==
  {JStr(0), JStr(2), JStr(4), JNum(0), JNum(3), JNum(6), JFrac(3), JValue}

GoodCard ==
  JObj([front |-> JStr(2), back |-> JStr(2)])

Cards ==
  {JObj(f) : f \in [{"front", "back"} -> Leaves]}
  \cup {JObj(f) : f \in [{"front"} -> Leaves]}
  \cup {JObj(<<>>), JStr(2), JValue}

CardLists ==
  {<<>>, <<GoodCard, GoodCard, GoodCard>>}
  \cup {<<c>> : c \in Cards}
  \cup {<<GoodCard, c>> : c \in Cards}

\* the parsed content of the answer
Contents ==
  {JObj([flashcards |-> JArr(l)]) : l \in CardLists}
  \cup {JObj([flashcards |-> JStr(2)]), JObj([flashcards |-> JValue]),
        JObj(<<>>), JArr(<<>>), JStr(2), JValue}

InitSchema ==
  /\ IdleRequest
  /\ retryOptions = [DEFAULT_RETRY_OPTIONS EXCEPT !.maxRetries = 0]
  /\ cache = <<>>
  /\ cacheOptions = DEFAULT_CACHE_OPTIONS
  /\ now = 0
  /\ \E format \in ResponseFormats :
       calls = <<[options |-> [messages |-> "m1", responseFormat |-> format,
                               cache |-> "undefined"],
                  attempts |-> 1]>>
  /\ lastSettled = NoSettled
  /\ cacheOp = NoCacheOp
  /\ keyLog = <<>>

\* chat lines 239-255: the fetch answers 200 with the content, processResponse
\* validates it, and only a processed response is stored in the cache
SchemaFetchSettles(content) ==
  LET call == calls[1]
      format == call.options.responseFormat
      key == createCacheKey(call.options)
      res == handleFetchError(processJson(content, SchemaOf(format.name), format.strict))
  IN /\ Len(calls) = 1
     /\ calls' = <<>>
     /\ lastSettled' = [options |-> call.options,
                        state |-> IF res = "ok" THEN "returned" ELSE res,
                        attempts |-> call.attempts,
                        response |-> content,
                        fromCache |-> FALSE]
     /\ cache' = IF res = "ok" /\ UsesCache(call.options)
                 THEN cacheSet(cache, key, content, now, cacheOptions.maxSize)
                 ELSE cache
     /\ UNCHANGED <<cacheOptions, now, cacheOp, keyLog>>
     /\ UNCHANGED notGwVars
     /\ UNCHANGED gwRunVars
     /\ UNCHANGED sideVars

NextSchema ==
  \E content \in Contents : SchemaFetchSettles(content)

SpecSchema ==
  InitSchema /\ [][NextSchema]_vars

----------------------------------------------------------------------------
(* extractFlashcardsFromText.  The text is a sequence of blocks separated by
   blank lines; a string is represented by its length after trim().

     num       "1. What is X\nIt is Y"
     fb        "Front: What is X\nBack: It is Y"
     qa        "Q: What is X\nA: It is Y"
     numqa     "1. Q: What is X\nA: It is Y"
     numblank  "1. What is X\n   "
     numlong   "1. " + 250 letters + "\n" + 700 letters
     para      "Cells are small. They divide"
     prose     "Cells are small and divide"
     short     "Cells"                                                        *)

BlockKinds ==
  {"num", "fb", "qa", "numqa", "numblank", "numlong", "para", "prose", "short"}

Captured(f, b) ==
  <<[front |-> f, back |-> b]>>

\* the groups a pattern captures in a block, trimmed; <<>> when it does not match
Captures(pattern, kind) ==
  CASE pattern = "numbered" /\ kind = "num" -> Captured(9, 7)
    [] pattern = "numbered" /\ kind = "numqa" -> Captured(12, 10)
    [] pattern = "numbered" /\ kind = "numblank" -> Captured(9, 0)
    [] pattern = "numbered" /\ kind = "numlong" -> Captured(250, 700)
    [] pattern = "frontBack" /\ kind = "fb" -> Captured(9, 7)
    [] pattern = "qa" /\ kind \in {"qa", "numqa"} -> Captured(9, 7)
    [] OTHER -> <<>>

\* a block as a paragraph: its trimmed length, paragraph.search(/[.!?]/) and
\* the trimmed length of what follows the terminator
Paragraph(kind) ==
  CASE kind = "num" -> [length |-> 20, sentenceEnd |-> 1, rest |-> 17]
    [] kind = "fb" -> [length |-> 30, sentenceEnd |-> -1, rest |-> 0]
    [] kind = "qa" -> [length |-> 23, sentenceEnd |-> -1, rest |-> 0]
    [] kind = "numqa" -> [length |-> 26, sentenceEnd |-> 1, rest |-> 23]
    [] kind = "numblank" -> [length |-> 12, sentenceEnd |-> 1, rest |-> 9]
    [] kind = "numlong" -> [length |-> 954, sentenceEnd |-> 1, rest |-> 951]
    [] kind = "para" -> [length |-> 28, sentenceEnd |-> 15, rest |-> 11]
    [] kind = "prose" -> [length |-> 26, sentenceEnd |-> -1, rest |-> 0]
    [] kind = "short" -> [length |-> 5, sentenceEnd |-> -1, rest |-> 0]

Proposal(f, b, strategy) ==
  [front |-> f, back |-> b, source |-> "ai-full", by |-> strategy]

RECURSIVE PatternLoop(_, _, _, _)

PatternLoop_Unbounded(flashcards, pattern, text, expectedCount) ==
  IF text = <<>> THEN flashcards
  ELSE LET m == Captures(pattern, Head(text))
           pushed == IF m # <<>> /\ m[1].front > 0 /\ m[1].back > 0
                     THEN Append(flashcards, Proposal(m[1].front, m[1].back, pattern))
                     ELSE flashcards
       IN PatternLoop(pushed, pattern, Tail(text), expectedCount)

\* while ((match = pattern.exec(text)) !== null && flashcards.length <
\* expectedCount): the matches in text order, each pushed if front && back
PatternLoop(flashcards, pattern, text, expectedCount) ==
  IF text = <<>> \/ ~(Len(flashcards) < expectedCount) THEN flashcards
  ELSE LET m == Captures(pattern, Head(text))
           pushed == IF m # <<>> /\ m[1].front > 0 /\ m[1].back > 0
                     THEN Append(flashcards, Proposal(m[1].front, m[1].back, pattern))
                     ELSE flashcards
       IN PatternLoop(pushed, pattern, Tail(text), expectedCount)

\* lines 267 and 284: if (flashcards.length < expectedCount)
Attempted(flashcards, expectedCount) ==
  Len(flashcards) < expectedCount

GenericFront ==
  37

ReviewBack ==
  32

RECURSIVE FromParagraphs(_, _)

\* lines 301-325: the first n paragraphs; one longer than 10 characters is cut
\* at its first sentence terminator or becomes the back of a generic question
FromParagraphs(text, n) ==
  IF text = <<>> \/ n <= 0 THEN <<>>
  ELSE LET p == Paragraph(Head(text))
           made == IF p.length > 10
                   THEN IF p.sentenceEnd > 0
                        THEN <<Proposal(p.sentenceEnd + 1,
                                        IF p.rest > 0 THEN p.rest ELSE ReviewBack,
                                        "paragraphs")>>
                        ELSE <<Proposal(GenericFront, p.length, "paragraphs")>>
                   ELSE <<>>
       IN made \o FromParagraphs(Tail(text), n - 1)

\* lines 243-329
extractFlashcardsFromText(text, expectedCount) ==
  LET one == PatternLoop(<<>>, "numbered", text, expectedCount)
      two == IF Attempted(one, expectedCount)
             THEN PatternLoop(one, "frontBack", text, expectedCount) ELSE one
      three == IF Attempted(two, expectedCount)
               THEN PatternLoop(two, "qa", text, expectedCount) ELSE two
  IN IF Len(three) = 0 THEN FromParagraphs(text, expectedCount) ELSE three

----------------------------------------------------------------------------
(* The text fallback alone: a generation whose text chat call has answered
   with a text that holds no JSON object; the text is one or two runs of
   equal blocks. *)

MaxRun == 6

Runs ==
  {[i \in 1..n |-> kind] : kind \in BlockKinds, n \in 1..MaxRun}

Texts ==
  {<<>>} \cup Runs \cup {a \o b : a \in Runs, b \in Runs}

InitExtract ==
  /\ \E text \in Texts, len \in {5000, 6000, 8000, 10000} :
       /\ extraction = [text |-> text, expectedCount |-> CardCount(len),
                        flashcards |-> <<>>, state |-> "called"]
       /\ srcLen = len
       /\ cardCount = CardCount(len)
  /\ ui = InitialUi
  /\ reqNo = 1
  /\ generations = <<[generated_count |-> 0, accepted_count |-> 0]>>
  /\ generation = 1
  /\ insertRes = "ok"
  /\ pc = "ai"
  /\ dbCalls = [NoDbCalls EXCEPT !.insert = 1]
  /\ timer = "armed"
  /\ race = "pending"
  /\ errorLogs = <<>>
  /\ updateRes = Fresh.updateRes
  /\ proposals = Fresh.proposals
  /\ pendingError = Fresh.pendingError
  /\ logCall = Fresh.logCall
  /\ result = Fresh.result
  /\ gwState = "settled"
  /\ gwChat = 2
  /\ delay = Fresh.delay
  /\ lastError = Fresh.lastError
  /\ attempts = [c \in 1..2 |-> 1]
  /\ sleeps = Fresh.sleeps
  /\ lastOutcome = Fresh.lastOutcome
  /\ chatResult = <<"schema_validation_error", "ok">>
  /\ aiResult = Fresh.aiResult
  /\ httpCalls = 2
  /\ cache = <<>>
  /\ retryOptions = DEFAULT_RETRY_OPTIONS
  /\ cacheOptions = DEFAULT_CACHE_OPTIONS
  /\ now = 0
  /\ calls = <<>>
  /\ lastSettled = NoSettled
  /\ cacheOp = NoCacheOp
  /\ keyLog = <<>>

\* makeAiServiceRequest line 231 returns the extracted list, which settles the
\* race of callAiService
ExtractReturns ==
  LET flashcards == extractFlashcardsFromText(extraction.text, extraction.expectedCount)
  IN /\ pc = "ai"
     /\ extraction.state = "called"
     /\ extraction' = [extraction EXCEPT !.flashcards = flashcards, !.state = "returned"]
     /\ aiResult' = [status |-> "resolved", cards |-> Len(flashcards)]
     /\ race' = PromiseRace(race, "ai")
     /\ RaceSettledByAi([status |-> "resolved", cards |-> Len(flashcards)])
     /\ UNCHANGED <<reqNo, srcLen, generation, insertRes, updateRes, cardCount, result,
                    generations, errorLogs, timer, retryOptions, ui>>
     /\ UNCHANGED <<gwState, gwChat, delay, lastError, attempts, sleeps, lastOutcome,
                    chatResult, httpCalls, cache>>
     /\ UNCHANGED <<cacheOptions, now, calls, lastSettled, cacheOp, keyLog>>

NextExtract ==
  \/ ExtractReturns
  \/ \E outcome \in {"ok", "error"} : UpdateSettles(outcome)

SpecExtract ==
  InitExtract /\ [][NextExtract]_vars

----------------------------------------------------------------------------
(* POST /api/generations *)

\* generateFlashcardsSchema.safeParse: source_text of 1000 to 10000 characters
safeParse(len) ==
  len >= 1000 /\ len <= 10000

\* POST lines 22-64: the status of the response for a body with a source text
\* of len characters, res being what generateFlashcards returned or threw
POST(len, res) ==
  IF ~safeParse(len) THEN 400
  ELSE IF res.kind = "ok" THEN 201
  ELSE 500

----------------------------------------------------------------------------
(* The cache key and the request body of a chat call.  Parameter sets are
   functions from parameter names to values written as strings. *)

\* { ...a, ...b }
Spread(a, b) ==
  [k \in DOMAIN a \cup DOMAIN b |-> IF k \in DOMAIN b THEN b[k] ELSE a[k]]

\* OpenRouterService.DEFAULT_PARAMETERS, this.defaultParameters of a gateway
\* constructed without config.defaultParameters
DEFAULT_PARAMETERS ==
  [temperature |-> "0.7", top_p |-> "0.9", max_tokens |-> "1024"]

DEFAULT_MODEL ==
  "openai/gpt-4.1-nano"

getParameterPreset(preset) ==
  CASE preset = "creative" ->
         [temperature |-> "1.2", top_p |-> "0.9", frequency_penalty |-> "0.2"]
    [] preset = "balanced" -> [temperature |-> "0.7", top_p |-> "0.8"]
    [] preset = "precise" ->
         [temperature |-> "0.2", top_p |-> "0.5", frequency_penalty |-> "0.0"]
    [] OTHER -> <<>>

\* createCacheKey lines 388-398 in full: options.parameters when given,
\* otherwise the preset, otherwise the defaults
stableOptions(options) ==
  [messages |-> options.messages,
   model |-> DEFAULT_MODEL,
   responseFormat |-> options.responseFormat,
   parameters |-> IF options.hasParameters THEN options.parameters
                  ELSE IF options.parameterPreset # "undefined"
                  THEN getParameterPreset(options.parameterPreset)
                  ELSE DEFAULT_PARAMETERS]

\* buildRequestBody: options.parameters spread over the preset or the defaults
buildRequestBody(options) ==
  [model |-> DEFAULT_MODEL,
   messages |-> options.messages,
   parameters |-> IF options.parameterPreset # "undefined"
                  THEN Spread(getParameterPreset(options.parameterPreset),
                              options.parameters)
                  ELSE Spread(DEFAULT_PARAMETERS, options.parameters),
   response_format |-> options.responseFormat,
   models |-> options.models]

\* the chat options of a caller: one conversation, with or without parameters,
\* a preset and model alternatives
KeyedOptionSets ==
  {[messages |-> "m1", responseFormat |-> "none", cache |-> "undefined",
    hasParameters |-> p # <<>>, parameters |-> p, parameterPreset |-> preset,
    models |-> models] :
     p \in {<<>>, [max_tokens |-> "2000"], [temperature |-> "1.2", top_p |-> "0.9"]},
     preset \in {"undefined", "creative", "precise"},
     models \in {"undefined", "alternatives"}}

\* a gateway with an empty cache and the two chat calls its caller makes one
\* after the other
InitKeyed ==
  /\ IdleRequest
  /\ retryOptions = [DEFAULT_RETRY_OPTIONS EXCEPT !.maxRetries = 0]
  /\ cache = <<>>
  /\ cacheOptions = DEFAULT_CACHE_OPTIONS
  /\ now = 0
  /\ \E a \in KeyedOptionSets, b \in KeyedOptionSets :
       calls = <<[options |-> a, attempts |-> 1], [options |-> b, attempts |-> 1]>>
  /\ lastSettled = NoSettled
  /\ cacheOp = NoCacheOp
  /\ keyLog = <<>>

\* chat lines 217-255 for the next call: the lookup under the call's key, and
\* on a miss the fetch of the call's request body, answered 200, whose
\* response is stored under the key
KeyedChat ==
  LET options == Head(calls).options
      key == stableOptions(options)
      r == IF UsesCache(options)
           THEN cacheGet(cache, key, now, cacheOptions.ttl)
           ELSE Miss(cache)
      response == [for |-> buildRequestBody(options), content |-> 1]
  IN /\ calls # <<>>
     /\ calls' = Tail(calls)
     /\ lastSettled' = [options |-> options, state |-> "returned",
                        attempts |-> IF r.hit THEN 0 ELSE 1,
                        response |-> IF r.hit THEN r.value ELSE response,
                        fromCache |-> r.hit]
     /\ cache' = IF r.hit \/ ~UsesCache(options) THEN r.map
                 ELSE cacheSet(r.map, key, response, now, cacheOptions.maxSize)
     /\ UNCHANGED <<cacheOptions, now, cacheOp, keyLog>>
     /\ UNCHANGED notGwVars
     /\ UNCHANGED gwRunVars
     /\ UNCHANGED sideVars

NextKeyed ==
  KeyedChat

SpecKeyed ==
  InitKeyed /\ [][NextKeyed]_vars

----------------------------------------------------------------------------
(* The generator page alone: useGeneratorState driven through GeneratorPage,
   GenerationForm, FlashcardPreview and FlashcardsSummary.  A text is
   represented by its length; the front and back of a card by one content:
   "original", "changed", "empty" or "long" (over the length limit). *)

notUiVars ==
  <<reqNo, pc, srcLen, generation, insertRes, updateRes, cardCount, proposals, pendingError,
    logCall, dbCalls, result, generations, errorLogs, timer, race, gwState,
    gwChat, delay, lastError, attempts, sleeps, lastOutcome, chatResult,
    aiResult, httpCalls, cache, retryOptions, cacheOptions, now, calls,
    lastSettled, cacheOp, keyLog, extraction>>

InitUi ==
  /\ IdleRequest
  /\ retryOptions = DEFAULT_RETRY_OPTIONS
  /\ cache = <<>>
  /\ cacheOptions = DEFAULT_CACHE_OPTIONS
  /\ now = 0
  /\ calls = <<>>
  /\ lastSettled = NoSettled
  /\ cacheOp = NoCacheOp
  /\ keyLog = <<>>

\* line 23
isTextValid(len) ==
  len >= 1000 /\ len <= 10000

\* GeneratorPage line 39
FormShown(state) ==
  state \in {"input", "generating"}

\* GeneratorPage line 49
ResultsShown(state) ==
  state \in {"review", "saving", "complete"}

\* the textarea of GenerationForm, disabled while generating
SetSourceText(len) ==
  /\ FormShown(ui.state)
  /\ ~ui.isGenerating
  /\ ui' = [ui EXCEPT !.sourceText = len]
  /\ UNCHANGED notUiVars

\* generateFlashcards lines 27-36, from the button of GenerationForm
GenerateClicked ==
  /\ FormShown(ui.state)
  /\ isTextValid(ui.sourceText) /\ ~ui.isGenerating
  /\ ui' = [ui EXCEPT !.isGenerating = TRUE, !.state = "generating", !.error = "null",
                      !.fetch = "generations"]
  /\ UNCHANGED notUiVars

\* lines 57-64: the view model of proposal number id
ViewModel(id) ==
  [id |-> id, content |-> "original", source |-> "ai-full", status |-> "pending",
   errors |-> FALSE]

GenerateFinally_StaysBusy(u) ==
  u

\* lines 72-74: finally { setIsGenerating(false) }
GenerateFinally(u) ==
  [u EXCEPT !.isGenerating = FALSE]

\* lines 40-74: the fetch settles: with n proposals, with a body that has no
\* flashcards_proposal, or with an error
GenerateSettles(outcome, n) ==
  /\ ui.fetch = "generations"
  /\ ui' = GenerateFinally(
       CASE outcome = "ok" ->
              [ui EXCEPT !.generationId = 1,
                         !.flashcards = [id \in 1..n |-> ViewModel(id)],
                         !.state = "review", !.fetch = "none"]
         [] outcome = "malformed" ->
              [ui EXCEPT !.generationId = 1, !.error = "TypeError",
                         !.state = "input", !.fetch = "none"]
         [] OTHER ->
              [ui EXCEPT !.error = "generate", !.state = "input", !.fetch = "none"])
  /\ UNCHANGED notUiVars

\* validateFlashcard of `data.front || card.front`: an empty edit is replaced
\* by the card's content before validation
validateFlashcard(data, card) ==
  LET validated == IF data = "empty" THEN card.content ELSE data
  IN validated \in {"empty", "long"}

\* updateFlashcard lines 82-88
Updated(card, data) ==
  [card EXCEPT !.content = data,
               !.status = IF card.status = "pending" THEN "edited" ELSE card.status,
               !.source = "ai-edited",
               !.errors = validateFlashcard(data, card)]

\* the list of cards is shown until the save is complete
ListShown ==
  ResultsShown(ui.state) /\ ui.state # "complete"

\* a textarea of FlashcardPreview changes
UpdateFlashcard(id, data) ==
  /\ ListShown
  /\ id \in 1..Len(ui.flashcards)
  /\ ui' = [ui EXCEPT !.flashcards[id] = Updated(@, data)]
  /\ UNCHANGED notUiVars

\* FlashcardPreview line 23: the buttons of a pending or edited card
isEditable(card) ==
  card.status \in {"pending", "edited"}

AcceptFlashcard(id) ==
  /\ ListShown
  /\ id \in 1..Len(ui.flashcards)
  /\ isEditable(ui.flashcards[id])
  /\ ui' = [ui EXCEPT !.flashcards[id].status = "accepted"]
  /\ UNCHANGED notUiVars

RejectFlashcard(id) ==
  /\ ListShown
  /\ id \in 1..Len(ui.flashcards)
  /\ isEditable(ui.flashcards[id])
  /\ ui' = [ui EXCEPT !.flashcards[id].status = "rejected"]
  /\ UNCHANGED notUiVars

\* line 127 and GenerationResults line 34
Accepted(card) ==
  card.status \in {"accepted", "edited"}

RECURSIVE Filter(_)

\* flashcards.filter(card => accepted or edited)
Filter(cards) ==
  IF cards = <<>> THEN <<>>
  ELSE (IF Accepted(Head(cards)) THEN <<Head(cards)>> ELSE <<>>) \o Filter(Tail(cards))

\* lines 150-155
PayloadItem(card) ==
  [content |-> card.content,
   source |-> IF card.status = "edited" THEN "ai-edited" ELSE "ai-full",
   generation_id |-> ui.generationId]

\* FlashcardsSummary line 87: disabled={!hasAccepted || isLoading || pendingCount > 0}
SaveEnabled ==
  /\ \E i \in 1..Len(ui.flashcards) : Accepted(ui.flashcards[i])
  /\ ~ui.isSaving
  /\ \A i \in 1..Len(ui.flashcards) : ui.flashcards[i].status # "pending"

\* saveAcceptedFlashcards lines 126-162, from the button of FlashcardsSummary
SaveClicked ==
  LET acceptedCards == Filter(ui.flashcards)
  IN /\ ListShown
     /\ SaveEnabled
     /\ ui' = IF acceptedCards = <<>>
              THEN [ui EXCEPT !.error = "nothing to save"]
              ELSE IF \E i \in 1..Len(acceptedCards) : acceptedCards[i].errors
              THEN [ui EXCEPT !.error = "cards with errors"]
              ELSE [ui EXCEPT !.isSaving = TRUE, !.state = "saving", !.error = "null",
                              !.fetch = "flashcards",
                              !.payload = [i \in 1..Len(acceptedCards) |->
                                             PayloadItem(acceptedCards[i])]]
     /\ UNCHANGED notUiVars

\* lines 163-184: the fetch settles
SaveSettles(outcome) ==
  /\ ui.fetch = "flashcards"
  /\ ui' = IF outcome = "ok"
           THEN [ui EXCEPT !.state = "complete", !.isSaving = FALSE, !.fetch = "none"]
           ELSE [ui EXCEPT !.state = "review", !.error = "save", !.isSaving = FALSE,
                           !.fetch = "none"]
  /\ UNCHANGED notUiVars

\* reset lines 188-194, from the buttons of FlashcardsSummary (lines 63-82)
Reset ==
  /\ ResultsShown(ui.state)
  /\ ui.state = "complete" \/ ~ui.isSaving
  /\ ui' = [ui EXCEPT !.state = "input", !.sourceText = 0, !.generationId = Undefined,
                      !.flashcards = <<>>, !.error = "null"]
  /\ UNCHANGED notUiVars

NextUi ==
  \/ \E len \in {0, 999, 1000} : SetSourceText(len)
  \/ GenerateClicked
  \/ \E outcome \in {"ok", "malformed", "error"}, n \in 0..MaxCards :
       GenerateSettles(outcome, n)
  \/ \E id \in 1..MaxCards, data \in {"changed", "empty", "long"} : UpdateFlashcard(id, data)
  \/ \E id \in 1..MaxCards : AcceptFlashcard(id)
  \/ \E id \in 1..MaxCards : RejectFlashcard(id)
  \/ SaveClicked
  \/ \E outcome \in {"ok", "error"} : SaveSettles(outcome)
  \/ Reset

SpecUi ==
  InitUi /\ [][NextUi]_vars

\* a fetch of the browser settles
SpecUiFair ==
  /\ SpecUi
  /\ WF_vars(\E outcome \in {"ok", "malformed", "error"}, n \in 0..MaxCards :
               GenerateSettles(outcome, n))
  /\ WF_vars(\E outcome \in {"ok", "error"} : SaveSettles(outcome))

----------------------------------------------------------------------------
(* Claims C1 - C10 *)

LogsOfRequest ==
  {i \in 1..Len(errorLogs) : errorLogs[i].req = reqNo}

\* C1: a source text shorter than 1000 or longer than 10000 characters makes
\* generate fail with the validation error, and the request makes no network
\* call and no persistence call (no record insert, no update, no error log).
C1_LengthRejected ==
  (pc # "idle" /\ (srcLen < 1000 \/ srcLen > 10000)) =>
    /\ pc = "done"
    /\ result.kind = "error"
    /\ result.message = ValidationMessage
    /\ httpCalls = 0
    /\ gwState = "idle"
    /\ timer = "unset"
    /\ dbCalls = NoDbCalls
    /\ logCall = <<>>
    /\ LogsOfRequest = {}

C1_Witness ==
  pc = "done" /\ srcLen > 10000 /\ result.kind = "error"

\* C2 (as claimed): a generation that fails after its record was created
\* writes exactly one error log, the log carries the id of that record, and
\* it is written before the error reaches the caller.
C2_LogCarriesGenerationId ==
  (insertRes = "ok" /\ pc = "done" /\ result.kind = "error") =>
    /\ Len(logCall) = 1
    /\ logCall[1].generation_id = generation

C4_InsertBeforeGateway ==
  /\ (httpCalls > 0 \/ gwState # "idle" \/ race # "none") =>
       /\ insertRes = "ok"
       /\ dbCalls.insert = 1
       /\ generation \in 1..Len(generations)
  /\ pc = "ai" =>
       /\ generations[generation].generated_count = 0
       /\ generations[generation].accepted_count = 0
  /\ pc = "insert" => httpCalls = 0
  /\ insertRes \in {"error", "norow"} =>
       /\ httpCalls = 0
       /\ \A c \in 1..2 : chatResult[c] = "none" /\ attempts[c] = 0

C4_Witness ==
  /\ pc = "ai"
  /\ httpCalls = 1
  /\ generations[generation].generated_count = 0

\* C5 (as claimed): the second, unstructured gateway call is made only when
\* the structured call failed with SchemaValidationError; after any other
\* failure of the first call no second call is issued.
C5_FallbackOnlyOnSchemaError ==
  chatResult[1] \in {"authentication_error", "timeout_error", "rate_limit_error",
                     "network_error", "quota_exceeded_error", "content_filter_error"}
    => (chatResult[2] = "none" /\ attempts[2] = 0)

\* C6 (as claimed): the gateway retries on 5xx and 429 responses, so a call
\* whose latest response was one of these has given up only after
\* maxRetries retries (503, 503, 200 would end in success after two sleeps).
C6_RetriesOnServerError ==
  \A c \in 1..2 :
    ( /\ lastOutcome[c].kind = "response"
      /\ lastOutcome[c].status \in {429} \cup (500..599)
      /\ chatResult[c] \notin {"none", "pending"} )
    => attempts[c] = retryOptions.maxRetries + 1

RECURSIVE Pow(_, _)
Pow(b, n) ==
  IF n = 0 THEN 1 ELSE b * Pow(b, n - 1)

C9_Done ==
  gwState \in {"returned", "thrown"}

C9_Bounds ==
  /\ attempts[1] <= retryOptions.maxRetries + 1
  /\ Len(sleeps[1]) <= retryOptions.maxRetries
  /\ Len(sleeps[1]) \in {attempts[1] - 1, attempts[1]}
  /\ \A k \in 1..Len(sleeps[1]) :
       /\ sleeps[1][k] = Min(retryOptions.initialDelay * Pow(retryOptions.backoffFactor, k - 1),
                             retryOptions.maxDelay)
       /\ sleeps[1][k] <= 10000
  /\ gwState = "thrown" =>
       /\ lastError = lastOutcome[1].kind
       /\ lastError \notin NoRetryCodes => attempts[1] = retryOptions.maxRetries + 1
  /\ retryOptions = DEFAULT_RETRY_OPTIONS =>
       /\ attempts[1] <= 4
       /\ \E n \in 0..3 : sleeps[1] = SubSeq(<<1000, 2000, 4000>>, 1, n)

C10_Result ==
  pc = "done" =>
    /\ pendingError # "" => result.kind = "error" /\ result.message = pendingError
    /\ (pendingError = "" /\ insertRes = "ok") => result.kind = "ok"
    /\ race = "timer" => result.message = TimeoutMessage
    /\ race = "ai" => result.message # TimeoutMessage

C10_Step ==
  LET timerFires == timer = "armed" /\ timer' = "fired"
      aiSettles == /\ aiResult.status = "pending"
                   /\ aiResult'.status \in {"resolved", "rejected"}
  IN /\ (timerFires /\ aiResult.status = "pending") =>
          /\ pc' = "log"
          /\ pendingError' = TimeoutMessage
          /\ race' = "timer"
     /\ (timerFires /\ aiResult.status # "pending") =>
          UNCHANGED <<pc, result, pendingError, proposals, race, dbCalls>>
     /\ (aiSettles /\ timer = "armed") =>
          /\ race' = "ai"
          /\ IF aiResult'.status = "resolved"
             THEN pc' = "update" /\ proposals' = aiResult'.cards /\ pendingError' = ""
             ELSE pc' = "log" /\ pendingError' = FailedMessage
     /\ (aiSettles /\ timer = "fired") =>
          UNCHANGED <<pc, result, pendingError, proposals, race, dbCalls>>

\* C10: the gateway interaction is raced against the 40 s timer and the first
\* to settle decides: when the timer fires first generate fails with the
\* timeout error, which differs from the error of a failed gateway
\* interaction, even if the gateway later succeeds; when the gateway
\* interaction settles first, the timer's later expiry changes nothing.
C10_FirstSettledDecides ==
  []C10_Result /\ [][C10_Step]_vars

C10_Witness ==
  /\ pc = "done"
  /\ timer = "fired"
  /\ result.kind = "error"
  /\ result.message = TimeoutMessage
  /\ aiResult.status = "resolved"

----------------------------------------------------------------------------
(* Claims C11 - C20 *)

\* C11 (as claimed): when the 40 s timer wins the race the gateway's work is
\* cancelled: once generate has failed with the timeout error, no fetch and
\* no backoff sleep of that generation is still pending.
C11_GatewayAbortedOnTimeout ==
  (pc = "done" /\ race = "timer" /\ result.message = TimeoutMessage) =>
    gwState \notin {"fetching", "sleeping"}

\* C12: for every accepted source length L (1000..10000) the number of
\* flashcards asked for is 5 when L is in 1000..5999, floor(L / 1000) when L
\* is in 6000..9999 and 10 when L = 10000, hence always within 5..10.
C12_CardCountClamped ==
  pc = "ai" =>
    /\ srcLen \in 1000..10000
    /\ cardCount \in 5..10
    /\ srcLen \in 1000..5999 => cardCount = 5
    /\ srcLen \in 6000..9999 =>
         cardCount * 1000 <= srcLen /\ srcLen < (cardCount + 1) * 1000
    /\ srcLen = 10000 => cardCount = 10

C12_Witness ==
  pc = "ai" /\ srcLen = 7999 /\ cardCount = 7

\* C13: when generate has succeeded and the update of the record succeeded,
\* the stored generations row of the returned generation_id has
\* generated_count equal to the number of proposals returned to the caller.
C13_GeneratedCountStored ==
  (pc = "done" /\ result.kind = "ok" /\ updateRes = "ok") =>
    /\ result.generation_id \in 1..Len(generations)
    /\ generations[result.generation_id].generated_count = result.proposals

C13_Witness ==
  /\ pc = "done"
  /\ result.kind = "ok"
  /\ updateRes = "ok"
  /\ result.proposals = 1
  /\ generations[result.generation_id].generated_count = 1

\* C14: when the update of generated_count fails after the proposals were
\* produced, generate still returns the generation id and the proposals,
\* raises no error, and neither issues nor stores an error log row.
C14_UpdateFailureIgnored ==
  updateRes = "error" =>
    /\ pc = "done"
    /\ result.kind = "ok"
    /\ result.generation_id = generation
    /\ result.proposals = proposals
    /\ pendingError = ""
    /\ logCall = <<>>
    /\ dbCalls.log = 0
    /\ LogsOfRequest = {}

C14_Witness ==
  /\ updateRes = "error"
  /\ pc = "done"
  /\ result.kind = "ok"
  /\ result.proposals = 1
  /\ generations[generation].generated_count = 0

\* C15 (as claimed): a response whose status is not OK makes the chat call
\* fail with the error kind of its status: 401 authentication, 400
\* validation, 404 model, 429 rate limit, 402 quota exceeded, 403 content
\* filter, every status in 500..599 internal service, any other network.
C15_StatusClassification ==
  \A c \in 1..2 :
    (lastOutcome[c].kind = "response" /\ lastOutcome[c].status \notin 200..299) =>
      chatResult[c] =
        ( CASE lastOutcome[c].status = 401 -> "authentication_error"
            [] lastOutcome[c].status = 400 -> "validation_error"
            [] lastOutcome[c].status = 404 -> "model_error"
            [] lastOutcome[c].status = 429 -> "rate_limit_error"
            [] lastOutcome[c].status = 402 -> "quota_exceeded_error"
            [] lastOutcome[c].status = 403 -> "content_filter_error"
            [] lastOutcome[c].status \in 500..599 -> "internal_service_error"
            [] OTHER -> "network_error" )

(* Steps of a gateway used on its own *)

StartedFetch ==
  Len(calls') = Len(calls) + 1

NewCall ==
  calls'[Len(calls')]

ServedFromCache ==
  lastSettled' # lastSettled /\ lastSettled'.fromCache

FetchSettled ==
  Len(calls') = Len(calls) - 1

SameRequest(options) ==
  [messages |-> options.messages, responseFormat |-> options.responseFormat]

Age(map, key) ==
  now - Entry(map, key).timestamp

C16_Step ==
  /\ (StartedFetch /\ NewCall.options.cache # "false") =>
       ~ ( /\ Has(cache, SameRequest(NewCall.options))
           /\ Age(cache, SameRequest(NewCall.options)) <= cacheOptions.ttl )
  /\ ServedFromCache =>
       /\ lastSettled'.options.cache # "false"
       /\ Has(cache, SameRequest(lastSettled'.options))
       /\ lastSettled'.response = Entry(cache, SameRequest(lastSettled'.options)).value
       /\ lastSettled'.attempts = 0
       /\ UNCHANGED <<calls, cache>>
  /\ (FetchSettled /\ lastSettled'.options.cache # "false"
        /\ lastSettled'.state = "returned") =>
       /\ Has(cache', SameRequest(lastSettled'.options))
       /\ Entry(cache', SameRequest(lastSettled'.options)).value = lastSettled'.response
       /\ Entry(cache', SameRequest(lastSettled'.options)).timestamp = now
  /\ (FetchSettled /\ lastSettled'.state # "returned") => cache' = cache
  /\ (StartedFetch /\ NewCall.options.cache = "false") => cache' = cache
  /\ (FetchSettled /\ lastSettled'.options.cache = "false") =>
       /\ cache' = cache
       /\ lastSettled'.attempts = 1

Keys(map) ==
  {map[i].key : i \in 1..Len(map)}

\* of the stored keys, the one inserted earliest
Oldest(map, log) ==
  CHOOSE k \in Keys(map) : \A j \in Keys(map) : log[k].no <= log[j].no

C17_Step ==
  ( /\ cacheOp'.no = cacheOp.no + 1
    /\ cacheOp'.op = "set"
    /\ Len(cache) >= cacheOptions.maxSize
    /\ ~Has(cache, cacheOp'.key) ) =>
      Keys(cache') = (Keys(cache) \ {Oldest(cache, keyLog)}) \cup {cacheOp'.key}

\* C17: whatever get, set, delete and clear operations were made on a cache
\* created with maxSize >= 1, it stores at most maxSize entries, and a set of
\* a new key on a full cache evicts the stored key that was inserted earliest.
C17_BoundedOldestEvicted ==
  /\ [](Len(cache) <= cacheOptions.maxSize /\ cacheOptions.maxSize >= 1)
  /\ [][C17_Step]_vars

C17_Witness ==
  /\ cacheOptions.maxSize = 2
  /\ cacheOp.op = "set"
  /\ cacheOp.no = 4
  /\ Keys(cache) = {"b", "c"}
  /\ keyLog["a"].no = 0
  /\ keyLog["b"].no = 2
  /\ keyLog["c"].no = 4

C18_Step ==
  /\ ServedFromCache =>
       /\ Age(cache, SameRequest(lastSettled'.options)) <= cacheOptions.ttl
       /\ lastSettled'.response = Entry(cache, SameRequest(lastSettled'.options)).value
       /\ cache' = cache
  /\ ( /\ StartedFetch
       /\ NewCall.options.cache # "false"
       /\ Has(cache, SameRequest(NewCall.options)) ) =>
         /\ Age(cache, SameRequest(NewCall.options)) > cacheOptions.ttl
         /\ ~Has(cache', SameRequest(NewCall.options))
         /\ NewCall.attempts = 1

\* C18: the cache lookup of a chat call never returns an entry that was set
\* more than TTL ago: the entry is removed, the lookup gives nothing and the
\* call makes a network call; an entry set less than TTL ago is returned as
\* it was stored and stays stored.
C18_ExpiredNeverReturned ==
  [][C18_Step]_vars

C18_Witness ==
  /\ lastSettled.state = "returned"
  /\ ~lastSettled.fromCache
  /\ Len(calls) = 1
  /\ calls[1].options.cache # "false"
  /\ calls[1].options = lastSettled.options
  /\ cache = <<>>
  /\ now > cacheOptions.ttl

\* C19 (as claimed): the response cache is shared by the requests of the
\* process: what was cached while one request was served is still cached
\* when the next request is served.
C19_CacheSharedAcrossRequests ==
  [][reqNo' # reqNo => cache' = cache]_vars

C20_Valid ==
  /\ \A i \in 1..Len(cache) : cache[i].value.for = cache[i].key
  /\ lastSettled.state = "returned" =>
       lastSettled.response.for = SameRequest(lastSettled.options)

C20_Step ==
  /\ (FetchSettled /\ lastSettled'.state = "returned"
        /\ lastSettled'.options.cache # "false") =>
       Entry(cache', SameRequest(lastSettled'.options)).value = lastSettled'.response
  /\ \A i \in 1..Len(cache') :
       ( \/ ~Has(cache, cache'[i].key)
         \/ Entry(cache, cache'[i].key).value # cache'[i].value ) =>
           /\ FetchSettled
           /\ lastSettled'.response = cache'[i].value

\* C20: however chat calls on one gateway overlap, every response a call
\* returns, from the cache or from the network, and every response the cache
\* holds under a key, is a response the upstream gave to the request of that
\* key; a call that returns from the network leaves its own response in the
\* cache, and a cached response changes only in that way (the last writer's
\* response stays).
C20_RaceOnlyDuplicates ==
  []C20_Valid /\ [][C20_Step]_vars

\* a call is still awaiting its fetch while the response of an identical call
\* that overtook it is cached
C20_Witness ==
  /\ lastSettled.state = "returned"
  /\ ~lastSettled.fromCache
  /\ Len(calls) = 1
  /\ calls[1].options.cache # "false"
  /\ calls[1].options = lastSettled.options
  /\ Has(cache, SameRequest(calls[1].options))
  /\ Age(cache, SameRequest(calls[1].options)) <= cacheOptions.ttl
  /\ Entry(cache, SameRequest(calls[1].options)).value = lastSettled.response

----------------------------------------------------------------------------
(* Claims C21 - C30 *)

RECURSIVE Violates(_, _)

\* value violates schema in one of the ways the claim lists: a missing
\* required property, a wrong type, a number or string out of bounds, an array
\* outside minItems/maxItems, or a violation in a nested object or an item
Violates(value, schema) ==
  \/ schema.type = "integer" /\ ~(value.t = "number" /\ value.whole)
  \/ schema.type \in {"number", "string", "boolean", "object", "array"}
       /\ value.t # schema.type
  \/ /\ value.t = "number"
     /\ \/ schema.minimum # Undefined /\ value.n < schema.minimum
        \/ schema.maximum # Undefined
             /\ (value.n > schema.maximum \/ (~value.whole /\ value.n >= schema.maximum))
  \/ /\ value.t = "string"
     /\ \/ schema.minLength # Undefined /\ value.n < schema.minLength
        \/ schema.maxLength # Undefined /\ value.n > schema.maxLength
  \/ /\ value.t = "array"
     /\ \/ schema.minItems # Undefined /\ Len(value.items) < schema.minItems
        \/ schema.maxItems # Undefined /\ Len(value.items) > schema.maxItems
        \/ /\ schema.hasItems
           /\ \E i \in 1..Len(value.items) : Violates(value.items[i], schema.items)
  \/ /\ value.t = "object"
     /\ \/ \E name \in schema.required : name \notin DOMAIN value.props
        \/ /\ schema.hasProperties
           /\ \E name \in DOMAIN schema.properties \cap DOMAIN value.props :
                Violates(value.props[name], schema.properties[name])

\* the chat call that settled had a strict json_schema format
StrictSettled ==
  /\ lastSettled.state # "none"
  /\ lastSettled.options.responseFormat.strict

\* C21: a strict structured chat call whose content violates the schema
\* fails with a SchemaValidationError and its response is not cached.
C21_ViolationRejected ==
  (StrictSettled
     /\ Violates(lastSettled.response, SchemaOf(lastSettled.options.responseFormat.name)))
  => (/\ lastSettled.state = "schema_validation_error"
      /\ ~Has(cache, createCacheKey(lastSettled.options)))

\* C22: the list extractFlashcardsFromText returns holds the items of one
\* strategy only.
C22_OneStrategyOnly ==
  extraction.state = "returned"
  => \A i, j \in 1..Len(extraction.flashcards) :
       extraction.flashcards[i].by = extraction.flashcards[j].by

\* C23: text extraction returns at most expectedCount items and never throws;
\* whatever it returns, the empty list included, the generation succeeds with
\* exactly that list.
C23_ExtractionBounded ==
  /\ pc \in {"ai", "update", "done"}
  /\ extraction.expectedCount \in 5..10
  /\ extraction.state = "returned"
       => Len(extraction.flashcards) <= extraction.expectedCount
  /\ pc = "done" => /\ result.kind = "ok"
                    /\ result.proposals = Len(extraction.flashcards)

C23_Witness ==
  /\ pc = "done"
  /\ Len(extraction.text) > extraction.expectedCount
  /\ \A i \in 1..Len(extraction.text) : Captures("numbered", extraction.text[i]) # <<>>
  /\ Len(extraction.flashcards) = extraction.expectedCount
  /\ result.kind = "ok"

\* C24: every proposal of a generation that succeeded has a front of at most
\* 200 characters and a back of at most 600 characters.
C24_ProposalsWellFormed ==
  pc = "done"
  => \A i \in 1..Len(extraction.flashcards) :
       /\ extraction.flashcards[i].front <= 200
       /\ extraction.flashcards[i].back <= 600

\* the generation failed because the upstream rejected the API key
UpstreamAuthFailure ==
  /\ result.kind = "error"
  /\ \E c \in 1..2 : chatResult[c] = "authentication_error" /\ lastOutcome[c].status = 401
  /\ chatResult[2] \notin {"ok", "none", "pending"}

\* C25: the response to POST /api/generations is 201 on success, 400 for a
\* source text of invalid length, 401 when the upstream rejected the
\* credentials, 500 for every other failure.
C25_StatusCodes ==
  pc = "done"
  => POST(srcLen, result) =
       ( CASE result.kind = "ok" -> 201
           [] result.kind # "ok" /\ ~ValidLength(srcLen) -> 400
           [] result.kind # "ok" /\ ValidLength(srcLen) /\ UpstreamAuthFailure -> 401
           [] OTHER -> 500 )

\* the error log insert of this request was issued and stored no row
LogWriteFailed ==
  /\ pc = "done"
  /\ dbCalls.log > 0
  /\ LogsOfRequest = {}

\* C26: when the write of the error log fails, generate still fails with the
\* error it caught, never with the logging error and never with success.
C26_LogFailureSwallowed ==
  LogWriteFailed
  => /\ result.kind = "error"
     /\ result.message = pendingError
     /\ pendingError \in {InsertErrorMessage, TimeoutMessage, FailedMessage}

C26_Witness ==
  /\ LogWriteFailed
  /\ result.kind = "error"
  /\ result.message = TimeoutMessage
  /\ errorLogs = <<>>

\* the generations row of the request being served
OwnRow ==
  generations[generation]

\* generate has failed or is about to: an error was caught at line 94
GenerateFails ==
  pc = "log" \/ (pc = "done" /\ result.kind = "error")

\* C27: generated_count is written only by a generate that succeeds; a
\* generate that fails, also when the gateway answers after the timer has won,
\* leaves its record with generated_count = 0 and accepted_count = 0.
C27_CountsOnlyOnSuccess ==
  generation \in 1..Len(generations)
  => /\ GenerateFails => OwnRow.generated_count = 0 /\ OwnRow.accepted_count = 0
     /\ OwnRow.generated_count # 0
          => pc = "done" /\ result.kind = "ok" /\ pendingError = "" /\ race = "ai"
     /\ OwnRow.accepted_count = 0

\* the gateway resolved with cards after the timer had won the race
C27_Witness ==
  /\ generation \in 1..Len(generations)
  /\ pc = "done"
  /\ result.message = TimeoutMessage
  /\ race = "timer"
  /\ aiResult.status = "resolved"
  /\ aiResult.cards > 0
  /\ OwnRow.generated_count = 0

\* C28: a chat call that is answered from the cache gets a response the
\* upstream gave to the request body this call builds: two calls share a cache
\* key only if they build the same request.
C28_KeyDeterminesRequest ==
  (lastSettled.state = "returned" /\ lastSettled.fromCache)
  => lastSettled.response.for = buildRequestBody(lastSettled.options)

\* a save request is issued in this step
SaveIssued ==
  ui.fetch # "flashcards" /\ ui'.fetch = "flashcards"

\* the cards that count as accepted when the save is issued, in list order
ToSave ==
  SelectSeq(ui.flashcards, LAMBDA card : card.status \in {"accepted", "edited"})

\* C29: the payload of a save holds exactly the accepted and edited cards,
\* each with source 'ai-edited' if the user edited it and 'ai-full' if not,
\* whatever the order of the edits, accepts and rejects was.
C29_Step ==
  SaveIssued
  => /\ Len(ui'.payload) = Len(ToSave)
     /\ \A i \in 1..Len(ToSave) :
          /\ ui'.payload[i].content = ToSave[i].content
          /\ ui'.payload[i].source =
               IF ToSave[i].source = "ai-edited" THEN "ai-edited" ELSE "ai-full"

C29_EditedSavedAsEdited ==
  [][C29_Step]_vars

C30_Views ==
  /\ FormShown(ui.state) <=> ui.state \in {"input", "generating"}
  /\ ResultsShown(ui.state) <=> ui.state \in {"review", "saving", "complete"}
  /\ FormShown(ui.state) # ResultsShown(ui.state)

C30_Busy ==
  /\ ui.isGenerating <=> ui.state = "generating"
  /\ ui.isSaving <=> ui.state = "saving"
  /\ ui.state = "generating" <=> ui.fetch = "generations"
  /\ ui.state = "saving" <=> ui.fetch = "flashcards"

C30_Step ==
  /\ (ui.state = "generating" /\ ui'.state # "generating")
       => /\ ~ui'.isGenerating
          /\ \/ ui'.state = "review" /\ ui'.error = "null"
             \/ ui'.state = "input" /\ ui'.error # "null"
  /\ (ui.state = "saving" /\ ui'.state # "saving")
       => /\ ~ui'.isSaving
          /\ \/ ui'.state = "complete"
             \/ ui'.state = "review" /\ ui'.error # "null"
  /\ (ResultsShown(ui.state) /\ ui'.state = "input")
       => /\ ui'.sourceText = 0
          /\ ui'.generationId = Undefined
          /\ ui'.flashcards = <<>>
          /\ ui'.error = "null"
  /\ (ui.state # "generating" /\ ui'.state = "generating") => isTextValid(ui.sourceText)

====
